---- MODULE Spec2Model ----
(***************************************************************************)
(* Model of knob.c: a 4-pin Gray-code rotary encoder read by a polling     *)
(* loop and reported to the host as HID keyboard press / release reports.  *)
(***************************************************************************)
EXTENDS Integers, Sequences, FiniteSets, TLC

(* ---------------------------------------------------------------------- *)
(* Bounds of the model                                                     *)
(* ---------------------------------------------------------------------- *)

\* the millisecond clock is explored up to this value
MaxMs == 40

\* number of press reports explored (each is followed by its release)
MaxPress == 2

(* ---------------------------------------------------------------------- *)
(* Program constants                                                       *)
(* ---------------------------------------------------------------------- *)

BLINK_NOT_MOUNTED == 250
BLINK_MOUNTED == 1000
BLINK_SUSPENDED == 2500

\* const uint32_t interval_ms = 10;
interval_ms == 10

\* HID usage ids of the two keys placed in keycode[0]
HID_KEY_BACKSLASH == 49
HID_KEY_BRACKET_RIGHT == 48

\* the table with its first two entries exchanged
gray_swapped == <<11, 10, 9, 8, 13, 12, 14, 15, 5, 4, 6, 7, 2, 3, 1, 0>>

\* the table with a mistyped last entry
gray_dup == <<10, 11, 9, 8, 13, 12, 14, 15, 5, 4, 6, 7, 2, 3, 1, 1>>

\* const char gray[]: raw 4-bit pin code -> position index (1-based tuple)
gray == <<10, 11, 9, 8, 13, 12, 14, 15, 5, 4, 6, 7, 2, 3, 1, 0>>

(* ---------------------------------------------------------------------- *)
(* Integer widths                                                          *)
(* ---------------------------------------------------------------------- *)

\* uint32_t values of the model stay below 2^31, where uint32_t addition does
\* not wrap; a uint32_t subtraction a - b wraps to at least 2^31 when a < b
U32Add(a, b) == a + b

\* (uint32_t)(a - b) < k, for k <= 2^31
U32DiffLess(a, b, k) == a - b >= 0 /\ a - b < k

\* conversion of an int to signed char (8 bit two's complement)
SChar(x) == ((x + 128) % 256) - 128

(* ---------------------------------------------------------------------- *)
(* Pure functions                                                          *)
(* ---------------------------------------------------------------------- *)

\* the four encoder pins, each 0 or 1, indexed 1..4 for ENC1..ENC4
PinLevels == [1..4 -> 0..1]

\* gpio_get(ENC1) | (gpio_get(ENC2) << 1) | (gpio_get(ENC3) << 2) | (gpio_get(ENC4) << 3)
RawCode(p) == p[1] + 2 * p[2] + 4 * p[3] + 8 * p[4]

\* gray[raw code of the pins]
Sample(p) == gray[RawCode(p) + 1]

\* gray_diff with the half-ring test written as part of the fold (>= for >)
gray_diff_ge(p, c) ==
    LET d == SChar(c - p)
    IN  IF d = 0 THEN 0
        ELSE IF d >= 8 THEN SChar(d - 16)
        ELSE IF d <= -8 THEN SChar(d + 16)
        ELSE d

\* gray_diff without the two wraparound folds
gray_diff_nowrap(p, c) ==
    LET d == SChar(c - p)
    IN  IF d = 0 \/ d = -8 \/ d = 8 THEN 0 ELSE d

\* gray_diff without the half-ring test
gray_diff_nohalf(p, c) ==
    LET d == SChar(c - p)
    IN  IF d = 0 THEN 0
        ELSE IF d > 8 THEN SChar(d - 16)
        ELSE IF d < -8 THEN SChar(d + 16)
        ELSE d

\* gray_diff with the half-ring test for +8 only
gray_diff_onesided(p, c) ==
    LET d == SChar(c - p)
    IN  IF d = 0 \/ d = 8 THEN 0
        ELSE IF d > 8 THEN SChar(d - 16)
        ELSE IF d < -8 THEN SChar(d + 16)
        ELSE d

\* signed char gray_diff(signed char prev, signed char curr)
gray_diff(p, c) ==
    LET d == SChar(c - p)
    IN  IF d = 0 \/ d = -8 \/ d = 8 THEN 0
        ELSE IF d > 8 THEN SChar(d - 16)
        ELSE IF d < -8 THEN SChar(d + 16)
        ELSE d

\* Keycode with the two key codes exchanged
KeycodeSwapped(d) ==
    IF d > 0 THEN <<HID_KEY_BRACKET_RIGHT, 0, 0, 0, 0, 0>>
    ELSE IF d < 0 THEN <<HID_KEY_BACKSLASH, 0, 0, 0, 0, 0>>
    ELSE <<0, 0, 0, 0, 0, 0>>

\* uint8_t keycode[6] = {0}; keycode[0] chosen by the sign of diff
Keycode(d) ==
    IF d > 0 THEN <<HID_KEY_BACKSLASH, 0, 0, 0, 0, 0>>
    ELSE IF d < 0 THEN <<HID_KEY_BRACKET_RIGHT, 0, 0, 0, 0, 0>>
    ELSE <<0, 0, 0, 0, 0, 0>>

\* tud_hid_keyboard_report(REPORT_ID_KEYBOARD, 0, NULL): no key held
NoKeys == <<0, 0, 0, 0, 0, 0>>

(* ---------------------------------------------------------------------- *)
(* State                                                                   *)
(* ---------------------------------------------------------------------- *)

VARIABLES
    gpio,               \* levels of the four encoder pins
    prev,               \* signed char prev
    curr,               \* signed char curr
    diff,               \* signed char diff
    clear_flag,         \* bool clear_flag
    blink_interval_ms,  \* static uint32_t blink_interval_ms
    start_ms,           \* static uint32_t start_ms of hid_task
    millis,             \* board_millis()
    presses,            \* number of key reports submitted to the transport
    releases,           \* number of all-keys-released reports submitted
    boot,               \* the startup sample, kept while the transport was never ready
    ticks,              \* number of executions of the tick logic of hid_task
    elapsed,            \* milliseconds since the last executed tick of hid_task,
                        \* counted up to interval_ms (interval_ms before the first)
    io                  \* what the last call of hid_task did: whether it passed
                        \* the interval test, what tud_hid_ready() returned,
                        \* whether tud_remote_wakeup() was called, the arguments
                        \* of its gray_diff call and the report it submitted

vars == <<gpio, prev, curr, diff, clear_flag, blink_interval_ms, start_ms,
          millis, presses, releases, boot, ticks, elapsed, io>>

decoder == <<prev, curr, diff, clear_flag>>

\* io of a call that did nothing of the kind
Quiet == [ran |-> FALSE, ready |-> FALSE, wakeup |-> FALSE,
          args |-> <<>>, report |-> <<>>]

\* main() without the sample taken before the loop
InitUnsampled ==
    /\ gpio \in PinLevels
    /\ prev = 0
    /\ curr = 0
    /\ diff = 0
    /\ clear_flag = FALSE
    /\ blink_interval_ms = BLINK_NOT_MOUNTED
    /\ start_ms = 0
    /\ millis = 0
    /\ presses = 0
    /\ releases = 0
    /\ boot = prev
    /\ ticks = 0
    /\ elapsed = interval_ms
    /\ io = Quiet

\* globals are zero-initialised; main() samples prev once before the loop
Init ==
    /\ gpio \in PinLevels
    /\ prev = Sample(gpio)
    /\ curr = 0
    /\ diff = 0
    /\ clear_flag = FALSE
    /\ blink_interval_ms = BLINK_NOT_MOUNTED
    /\ start_ms = 0
    /\ millis = 0
    /\ presses = 0
    /\ releases = 0
    /\ boot = prev
    /\ ticks = 0
    /\ elapsed = interval_ms
    /\ io = Quiet

(* ---------------------------------------------------------------------- *)
(* The environment: encoder and clock                                      *)
(* ---------------------------------------------------------------------- *)

\* the knob is turned: the pins take any other levels
EncoderMove ==
    /\ \E p \in PinLevels : p # gpio /\ gpio' = p
    /\ UNCHANGED <<prev, curr, diff, clear_flag, blink_interval_ms, start_ms,
                   millis, presses, releases, boot, ticks, elapsed, io>>

\* the durations by which the clock is seen to advance between loop iterations
ClockSteps == {5, 10, 20}

ClockAdvance ==
    /\ \E d \in ClockSteps :
          /\ millis + d <= MaxMs
          /\ millis' = U32Add(millis, d)
          /\ elapsed' = IF elapsed + d < interval_ms THEN elapsed + d
                        ELSE interval_ms
    /\ UNCHANGED <<gpio, prev, curr, diff, clear_flag, blink_interval_ms,
                   start_ms, presses, releases, boot, ticks, io>>

(* ---------------------------------------------------------------------- *)
(* Device callbacks                                                        *)
(* ---------------------------------------------------------------------- *)

\* a callback that also drops the pending release
CallbackResetting(interval) ==
    /\ blink_interval_ms' = interval
    /\ clear_flag' = FALSE
    /\ UNCHANGED <<gpio, prev, curr, diff, start_ms, millis,
                   presses, releases, boot, ticks, elapsed, io>>

\* the four callbacks: each assigns blink_interval_ms and nothing else
Callback(interval) ==
    /\ blink_interval_ms' = interval
    /\ UNCHANGED <<gpio, prev, curr, diff, clear_flag, start_ms, millis,
                   presses, releases, boot, ticks, elapsed, io>>

tud_mount_cb == Callback(BLINK_MOUNTED)

tud_umount_cb == Callback(BLINK_NOT_MOUNTED)

tud_suspend_cb == Callback(BLINK_SUSPENDED)

tud_resume_cb == Callback(BLINK_MOUNTED)

(* ---------------------------------------------------------------------- *)
(* hid_task                                                                *)
(* ---------------------------------------------------------------------- *)

\* the interval test left out
NoGate == FALSE

\* if (board_millis() - start_ms < interval_ms) return;
NotDue == U32DiffLess(millis, start_ms, interval_ms)

\* start_ms = board_millis(): the schedule restarted from the present
NextStartNow == millis

\* start_ms += interval_ms;
NextStart == U32Add(start_ms, interval_ms)

\* the keyboard block entered whatever tud_hid_ready() returned
ReadyIgnored(ready) == TRUE

\* if (tud_hid_ready())
KeyboardReady(ready) == ready

\* clear_flag left alone after a key report
FlagNotSet == FALSE

\* clear_flag after a key report was submitted
FlagAfterPress == TRUE

\* clear_flag left alone after the release report
FlagNotCleared == TRUE

\* clear_flag after the all-keys-released report was submitted
FlagAfterRelease == FALSE

\* prev = curr left out
PrevStale(c) == prev

\* prev moved by one position towards the sample, the rest left for later
PrevOneStep(c) ==
    IF gray_diff(prev, c) > 0 THEN (prev + 1) % 16
    ELSE IF gray_diff(prev, c) < 0 THEN (prev - 1) % 16
    ELSE c

\* prev when the sampling branch returns
PrevAfterSample(c) == c

\* the call returns at the interval test
HidTooEarly ==
    /\ NotDue
    /\ io' = Quiet
    /\ UNCHANGED <<gpio, prev, curr, diff, clear_flag, blink_interval_ms,
                   start_ms, millis, presses, releases, boot, ticks, elapsed>>

\* the sampling statements placed outside of the readiness test
HidNotReadySampling(ready, suspended) ==
    /\ ~NotDue
    /\ ~KeyboardReady(ready)
    /\ start_ms' = NextStart
    /\ ticks' = ticks + 1
    /\ elapsed' = 0
    /\ curr' = Sample(gpio)
    /\ prev' = curr'
    /\ io' = [ran |-> TRUE, ready |-> ready, wakeup |-> suspended,
              args |-> <<>>, report |-> <<>>]
    /\ UNCHANGED <<gpio, diff, clear_flag, blink_interval_ms,
                   millis, presses, releases, boot>>

\* a tick that finds the transport not ready giving up the owed release
HidNotReadyDropping(ready, suspended) ==
    /\ ~NotDue
    /\ ~KeyboardReady(ready)
    /\ start_ms' = NextStart
    /\ ticks' = ticks + 1
    /\ elapsed' = 0
    /\ clear_flag' = FALSE
    /\ io' = [ran |-> TRUE, ready |-> ready, wakeup |-> suspended,
              args |-> <<>>, report |-> <<>>]
    /\ UNCHANGED <<gpio, prev, curr, diff, blink_interval_ms,
                   millis, presses, releases, boot>>

\* the interval has elapsed, the transport is not ready
HidNotReady(ready, suspended) ==
    /\ ~NotDue
    /\ ~KeyboardReady(ready)
    /\ start_ms' = NextStart
    /\ ticks' = ticks + 1
    /\ elapsed' = 0
    /\ io' = [ran |-> TRUE, ready |-> ready, wakeup |-> suspended,
              args |-> <<>>, report |-> <<>>]
    /\ UNCHANGED <<gpio, prev, curr, diff, clear_flag, blink_interval_ms,
                   millis, presses, releases, boot>>

\* the release branch also refreshing prev from the encoder
HidReleaseRefreshing(ready, suspended) ==
    /\ ~NotDue
    /\ KeyboardReady(ready)
    /\ clear_flag
    /\ start_ms' = NextStart
    /\ ticks' = ticks + 1
    /\ elapsed' = 0
    /\ releases' = releases + 1
    /\ clear_flag' = FlagAfterRelease
    /\ curr' = Sample(gpio)
    /\ prev' = curr'
    /\ boot' = IF ready THEN -1 ELSE boot
    /\ io' = [ran |-> TRUE, ready |-> ready, wakeup |-> suspended,
              args |-> <<>>, report |-> <<NoKeys>>]
    /\ UNCHANGED <<gpio, diff, blink_interval_ms, millis, presses>>

\* the interval has elapsed, the transport is ready, a release is owed
HidRelease(ready, suspended) ==
    /\ ~NotDue
    /\ KeyboardReady(ready)
    /\ clear_flag
    /\ start_ms' = NextStart
    /\ ticks' = ticks + 1
    /\ elapsed' = 0
    /\ releases' = releases + 1
    /\ clear_flag' = FlagAfterRelease
    /\ boot' = IF ready THEN -1 ELSE boot
    /\ io' = [ran |-> TRUE, ready |-> ready, wakeup |-> suspended,
              args |-> <<>>, report |-> <<NoKeys>>]
    /\ UNCHANGED <<gpio, prev, curr, diff, blink_interval_ms, millis, presses>>

\* the interval has elapsed, the transport is ready, no release is owed
HidSample(ready, suspended) ==
    /\ ~NotDue
    /\ KeyboardReady(ready)
    /\ ~clear_flag
    /\ start_ms' = NextStart
    /\ ticks' = ticks + 1
    /\ elapsed' = 0
    /\ curr' = Sample(gpio)
    /\ diff' = gray_diff(prev, curr')
    /\ diff' # 0 => presses < MaxPress
    /\ IF diff' # 0
       THEN /\ presses' = presses + 1
            /\ clear_flag' = FlagAfterPress
            /\ io' = [ran |-> TRUE, ready |-> ready, wakeup |-> suspended,
                      args |-> <<prev, curr'>>, report |-> <<Keycode(diff')>>]
       ELSE /\ UNCHANGED <<presses, clear_flag>>
            /\ io' = [ran |-> TRUE, ready |-> ready, wakeup |-> suspended,
                      args |-> <<prev, curr'>>, report |-> <<>>]
    /\ prev' = PrevAfterSample(curr')
    /\ boot' = IF ready THEN -1 ELSE boot
    /\ UNCHANGED <<gpio, blink_interval_ms, millis, releases>>

hid_task ==
    \/ HidTooEarly
    \/ \E ready \in BOOLEAN, suspended \in BOOLEAN :
          \/ HidNotReady(ready, suspended)
          \/ HidRelease(ready, suspended)
          \/ HidSample(ready, suspended)

(* ---------------------------------------------------------------------- *)
(* Specification                                                           *)
(* ---------------------------------------------------------------------- *)

Next ==
    \/ EncoderMove
    \/ ClockAdvance
    \/ tud_mount_cb
    \/ tud_umount_cb
    \/ tud_suspend_cb
    \/ tud_resume_cb
    \/ hid_task

Spec == Init /\ [][Next]_vars


(* ---------------------------------------------------------------------- *)
(* Vocabulary of the properties                                            *)
(* ---------------------------------------------------------------------- *)

\* a step in which hid_task passed the interval test: only such a step
\* advances start_ms
ExecutedTick == start_ms' # start_ms

\* an executed tick in which tud_hid_ready() returned true
ReadyTick == ExecutedTick /\ io'.ready

\* an executed tick in which tud_hid_ready() returned false
UnreadyTick == ExecutedTick /\ ~io'.ready

\* a step that submits a report to the transport
Submits == presses' # presses \/ releases' # releases

\* the encoder position at the moment of a step
Position == Sample(gpio)

(* ---------------------------------------------------------------------- *)
(* C1                                                                      *)
(* ---------------------------------------------------------------------- *)

\* C1: in every reachable state the number of press reports minus the number
\* of all-keys-released reports is 0 when clear_flag is false and 1 when it
\* is true; so the reports alternate press, release, starting with a press.
C1_Alternation ==
    /\ presses - releases = (IF clear_flag THEN 1 ELSE 0)
    /\ releases <= presses

\* two complete press / release pairs have been sent
C1_Witness == presses = 2 /\ releases = 2 /\ ~clear_flag

(* ---------------------------------------------------------------------- *)
(* C2                                                                      *)
(* ---------------------------------------------------------------------- *)

\* C2: a report (press or release) is submitted only in an executed tick
\* whose readiness query returned true in that same tick.
C2_OnlyWhenReady == [][Submits => ReadyTick]_vars

\* the last call of hid_task found the transport ready and submitted a report
C2_Witness == io.ran /\ io.ready /\ io.report # <<>>

(* ---------------------------------------------------------------------- *)
(* C3                                                                      *)
(* ---------------------------------------------------------------------- *)

\* C3: on a ready tick in IDLE, with delta = gray_diff(prev, position):
\* delta > 0 sends exactly one press report with HID_KEY_BACKSLASH in slot 0
\* and zeros elsewhere and sets clear_flag; delta < 0 does the same with
\* HID_KEY_BRACKET_RIGHT; delta = 0 sends nothing and stays IDLE; in all
\* three cases prev is the sampled position when the tick returns.
C3_IdleTick ==
    [][(ReadyTick /\ ~clear_flag) =>
         LET delta == gray_diff(prev, Position)
         IN  /\ prev' = Position
             /\ curr' = Position
             /\ releases' = releases
             /\ delta > 0 =>
                  /\ presses' = presses + 1
                  /\ io'.report = << <<HID_KEY_BACKSLASH, 0, 0, 0, 0, 0>> >>
                  /\ clear_flag'
             /\ delta < 0 =>
                  /\ presses' = presses + 1
                  /\ io'.report = << <<HID_KEY_BRACKET_RIGHT, 0, 0, 0, 0, 0>> >>
                  /\ clear_flag'
             /\ delta = 0 =>
                  /\ presses' = presses
                  /\ io'.report = <<>>
                  /\ ~clear_flag']_vars

\* a counter-clockwise step has just been reported
C3_Witness ==
    /\ io.args # <<>>
    /\ diff < 0
    /\ io.report = << <<HID_KEY_BRACKET_RIGHT, 0, 0, 0, 0, 0>> >>
    /\ clear_flag
    /\ prev = curr

(* ---------------------------------------------------------------------- *)
(* C4                                                                      *)
(* ---------------------------------------------------------------------- *)

\* C4: while a release is owed, the next ready tick sends exactly one
\* all-keys-released report and returns to IDLE; every other step until then
\* sends no report and processes no step (prev, curr, diff and clear_flag
\* keep their values), whatever the encoder does.
C4_ReleaseNext ==
    [][clear_flag =>
         IF ReadyTick
         THEN /\ releases' = releases + 1
              /\ presses' = presses
              /\ io'.report = <<NoKeys>>
              /\ io'.args = <<>>
              /\ ~clear_flag'
         ELSE UNCHANGED <<presses, releases, prev, curr, diff, clear_flag>>]_vars

\* the release was sent after a tick that found the transport not ready,
\* and the encoder is no longer where the press was detected
C4_Witness ==
    /\ releases = 1
    /\ ~clear_flag
    /\ io.report = <<NoKeys>>
    /\ start_ms >= 30
    /\ Position # prev


(* ---------------------------------------------------------------------- *)
(* C5                                                                      *)
(* ---------------------------------------------------------------------- *)

\* C5 as stated: on every ready tick, in the pending-release state as well
\* as in IDLE, prev equals the encoder position when the tick returns.
C5_Original == [][ReadyTick => prev' = Position]_vars

\* C5 amended: on every ready tick in IDLE, prev equals the encoder position
\* when the tick returns; a ready tick that sends the release report does not
\* sample the encoder and leaves prev (and curr and diff) unchanged.
C5_PrevRefresh ==
    [][ReadyTick =>
         IF clear_flag
         THEN /\ io'.report = <<NoKeys>>
              /\ io'.args = <<>>
              /\ UNCHANGED <<prev, curr, diff>>
         ELSE /\ io'.args = <<prev, Position>>
              /\ prev' = Position]_vars

\* the release report was the last thing sent, and prev is still the position
\* of the press although the encoder is elsewhere
C5_Witness ==
    /\ io.ran /\ io.ready
    /\ io.report = <<NoKeys>>
    /\ presses = 1 /\ releases = 1
    /\ prev = curr
    /\ Position # prev

(* ---------------------------------------------------------------------- *)
(* C6                                                                      *)
(* ---------------------------------------------------------------------- *)

\* while the transport has never been ready at an executed tick, boot holds
\* the startup sample
NeverReady == boot # -1

\* C6: an executed tick that finds the transport not ready sends no report,
\* does not sample the encoder and leaves prev and clear_flag unchanged; so
\* while the transport has never been ready no report has been sent, the
\* state is IDLE and prev is the startup sample.
C6_NotReadyTick ==
    /\ [](NeverReady =>
            /\ presses = 0 /\ releases = 0
            /\ ~clear_flag
            /\ prev = boot
            /\ curr = 0 /\ diff = 0)
    /\ [][UnreadyTick =>
            /\ io'.report = <<>>
            /\ io'.args = <<>>
            /\ UNCHANGED <<prev, curr, diff, clear_flag, presses, releases>>]_vars

\* four ticks were executed, none found the transport ready, and the encoder
\* has left its startup position
C6_Witness ==
    /\ NeverReady
    /\ start_ms = 40
    /\ io.ran /\ ~io.ready
    /\ Position # prev

(* ---------------------------------------------------------------------- *)
(* C7                                                                      *)
(* ---------------------------------------------------------------------- *)

\* C7: a step that changes the blink interval (a lifecycle callback) changes
\* nothing else, in particular none of prev, curr, diff, clear_flag; and the
\* step-decoder state changes only in an executed tick of hid_task.
C7_CallbacksFrame ==
    /\ [][blink_interval_ms' # blink_interval_ms =>
            UNCHANGED <<gpio, prev, curr, diff, clear_flag, start_ms, millis,
                        presses, releases, boot, ticks, elapsed, io>>]_vars
    /\ [][decoder' # decoder =>
            ExecutedTick /\ blink_interval_ms' = blink_interval_ms]_vars

\* a release is owed while the device is suspended
C7_Witness ==
    /\ clear_flag
    /\ presses = releases + 1
    /\ blink_interval_ms = BLINK_SUSPENDED


(* ---------------------------------------------------------------------- *)
(* C8                                                                      *)
(* ---------------------------------------------------------------------- *)

Positions == 0..15

Abs(x) == IF x < 0 THEN -x ELSE x

\* the reference fold of a raw difference d
RefFold(d) ==
    IF d = 0 \/ d = 8 \/ d = -8 THEN 0
    ELSE IF d > 8 THEN d - 16
    ELSE IF d < -8 THEN d + 16
    ELSE d

\* r is a signed ring difference of least magnitude for the raw difference d
MinimalRingDiff(r, d) ==
    /\ (r - d) % 16 = 0
    /\ \A k \in -16..16 : (k - d) % 16 = 0 => Abs(r) <= Abs(k)

\* C8: for all prev, curr in 0..15, gray_diff(prev, curr) is the reference
\* fold of curr - prev; it lies in -8..7 and in (-8, 8], and, the half-ring
\* case apart (which gives 0), it is the signed difference modulo 16 of
\* least magnitude. The diff computed by hid_task is that of its arguments.
FoldOnAllPairs ==
    \A p \in Positions, c \in Positions :
       LET r == gray_diff(p, c)
       IN  /\ r = RefFold(c - p)
           /\ r \in -8..7
           /\ r > -8 /\ r <= 8
           /\ Abs(c - p) # 8 => MinimalRingDiff(r, c - p)

AdjacentOnAllPositions ==
    /\ \A p \in Positions :
         /\ gray_diff(p, (p + 1) % 16) = 1
         /\ gray_diff(p, (p - 1) % 16) = -1
    /\ \A s \in Positions : \A k \in 0..15 :
         /\ gray_diff((s + k) % 16, (s + k + 1) % 16) = 1
         /\ gray_diff((s - k) % 16, (s - k - 1) % 16) = -1

C9_Adjacent ==
    /\ AdjacentOnAllPositions
    /\ io.args # <<>> =>
         /\ io.args[2] = (io.args[1] + 1) % 16 => diff = 1
         /\ io.args[2] = (io.args[1] - 1) % 16 => diff = -1

\* hid_task classified the move from 15 to 0 as one clockwise step
C9_Witness ==
    /\ io.args = <<15, 0>>
    /\ diff = 1
    /\ io.report = << <<HID_KEY_BACKSLASH, 0, 0, 0, 0, 0>> >>

(* ---------------------------------------------------------------------- *)
(* C10                                                                     *)
(* ---------------------------------------------------------------------- *)

\* C10: for all prev, curr in 0..15, gray_diff(prev, curr) = 0 exactly when
\* curr = prev or curr - prev is +8 or -8; gray_diff(p, p) = 0,
\* gray_diff(0, 8) = 0, gray_diff(8, 0) = 0; and a call of hid_task that
\* sampled a position equal to prev or half a ring from it has sent no report
\* and left the state IDLE.
ZeroOnAllPairs ==
    /\ \A p \in Positions, c \in Positions :
         gray_diff(p, c) = 0 <=> (c = p \/ c - p = 8 \/ c - p = -8)
    /\ \A p \in Positions : gray_diff(p, p) = 0
    /\ gray_diff(0, 8) = 0
    /\ gray_diff(8, 0) = 0

C10_ZeroCases ==
    /\ ZeroOnAllPairs
    /\ (io.args # <<>> /\ Abs(io.args[2] - io.args[1]) \in {0, 8}) =>
         /\ diff = 0
         /\ io.report = <<>>
         /\ ~clear_flag
         /\ presses = releases

\* hid_task sampled a jump from 8 to 0 and sent nothing
C10_Witness ==
    /\ io.args = <<8, 0>>
    /\ diff = 0
    /\ io.report = <<>>
    /\ ~clear_flag
    /\ presses = releases

(* ---------------------------------------------------------------------- *)
(* C11                                                                     *)
(* ---------------------------------------------------------------------- *)

AntisymmetricOnAllPairs ==
    /\ \A a \in Positions, b \in Positions :
         gray_diff(a, b) = -gray_diff(b, a)
    /\ \A a \in Positions, b \in Positions :
         Abs(b - a) = 8 => gray_diff(a, b) = 0 /\ gray_diff(b, a) = 0

\* C11: for all a, b in 0..15, gray_diff(a, b) = -gray_diff(b, a), and for
\* pairs half a ring apart both directions give 0; the diff computed by
\* hid_task is the negation of the classification of the reverse move.
C11_Antisymmetric ==
    /\ AntisymmetricOnAllPairs
    /\ io.args # <<>> => diff = -gray_diff(io.args[2], io.args[1])

\* hid_task classified a move folded to -7 whose reverse folds to +7
C11_Witness ==
    /\ io.args # <<>>
    /\ diff = -7
    /\ gray_diff(io.args[2], io.args[1]) = 7

(* ---------------------------------------------------------------------- *)
(* C12                                                                     *)
(* ---------------------------------------------------------------------- *)

\* the state is IDLE and prev is the position the encoder is at
AtRest == ~clear_flag /\ prev = Position

\* C12: the program starts IDLE with prev equal to the encoder position;
\* from an IDLE state whose prev is the encoder position, every step that
\* does not move the encoder sends no report and leaves the state IDLE with
\* prev unchanged; and a call of hid_task that sampled the value of prev has
\* sent no report.
C12_NoSpuriousFire ==
    /\ AtRest
    /\ [][(AtRest /\ gpio' = gpio) =>
            /\ UNCHANGED <<presses, releases, clear_flag, prev>>
            /\ ExecutedTick => io'.report = <<>>]_vars
    /\ [](io.args # <<>> /\ io.args[1] = io.args[2] =>
            diff = 0 /\ io.report = <<>> /\ ~clear_flag)

\* after one press / release pair an IDLE tick sampled the position of the
\* press again and sent nothing
C12_Witness ==
    /\ presses = 1 /\ releases = 1
    /\ io.args # <<>>
    /\ io.args[1] = io.args[2]
    /\ io.report = <<>>
    /\ ~clear_flag

(* ---------------------------------------------------------------------- *)
(* C13                                                                     *)
(* ---------------------------------------------------------------------- *)

RawCodes == 0..15

\* bit i of the raw code r
Bit(r, i) == (r \div (2 ^ i)) % 2

\* the raw codes a and b differ in exactly one bit
OneBitApart(a, b) == Cardinality({i \in 0..3 : Bit(a, i) # Bit(b, i)}) = 1

\* the raw codes the table maps to position p
RawCodesOf(p) == {r \in RawCodes : gray[r + 1] = p}

\* the positions a and b are read from raw codes one bit apart
OneBitMove(a, b) ==
    \E r \in RawCodesOf(a), q \in RawCodesOf(b) : OneBitApart(r, q)

\* C13 as stated: every single-bit transition of the raw pin code is one
\* detent; so whenever hid_task classifies a move between two positions whose
\* raw codes differ in one bit, the result is +1 or -1.
C13_Original ==
    (io.args # <<>> /\ OneBitMove(io.args[1], io.args[2])) => diff \in {-1, 1}

DetentsAreSingleBit ==
    /\ \A r \in RawCodes, q \in RawCodes :
         gray_diff(gray[r + 1], gray[q + 1]) \in {-1, 1} => OneBitApart(r, q)
    /\ \A r \in RawCodes :
         /\ Cardinality({i \in 0..3 : \E q \in RawCodes :
               /\ OneBitApart(r, q) /\ Bit(r, i) # Bit(q, i)
               /\ gray_diff(gray[r + 1], gray[q + 1]) = 1}) = 1
         /\ Cardinality({i \in 0..3 : \E q \in RawCodes :
               /\ OneBitApart(r, q) /\ Bit(r, i) # Bit(q, i)
               /\ gray_diff(gray[r + 1], gray[q + 1]) = -1}) = 1
         /\ \A q \in RawCodes : OneBitApart(r, q) =>
               Abs(gray_diff(gray[r + 1], gray[q + 1])) \in {1, 3, 5, 7}

\* C13 amended: every single detent is a single-bit transition (positions
\* classified +1 or -1 have raw codes that differ in exactly one bit); of the
\* four single-bit changes of a raw code exactly one is classified +1 and
\* exactly one -1, the other two are classified as jumps of 3, 5 or 7
\* positions. Whenever hid_task classifies a move as +1 or -1 the two raw
\* codes differ in one bit.
C13_SingleBit ==
    /\ DetentsAreSingleBit
    /\ (io.args # <<>> /\ diff \in {-1, 1}) =>
         OneBitMove(io.args[1], io.args[2])

\* hid_task classified a single-bit transition (raw 0 to raw 4, positions
\* 10 to 13) as a jump of three positions and reported it
C13_Witness ==
    /\ io.args = <<10, 13>>
    /\ OneBitMove(10, 13)
    /\ diff = 3
    /\ io.report # <<>>

(* ---------------------------------------------------------------------- *)
(* C16                                                                     *)
(* ---------------------------------------------------------------------- *)

GrayIsCyclicCode ==
    /\ Len(gray) = 16
    /\ \A r \in RawCodes : gray[r + 1] \in Positions
    /\ \A r \in RawCodes, q \in RawCodes : r # q => gray[r + 1] # gray[q + 1]
    /\ \A p \in Positions : Cardinality(RawCodesOf(p)) = 1
    /\ \A p \in Positions :
         \A r \in RawCodesOf(p), q \in RawCodesOf((p + 1) % 16) :
            OneBitApart(r, q)
    /\ gray[15 + 1] = 0

\* C16: gray is a permutation of 0..15 (every raw code maps into 0..15,
\* distinct raw codes to distinct positions), the raw codes of positions p
\* and (p+1) mod 16 differ in exactly one bit, and raw code 15 (all four pins
\* high) maps to position 0. Every value hid_task stores is a position, and
\* with all pins high the sampled position is 0.
C16_GrayTable ==
    /\ GrayIsCyclicCode
    /\ prev \in Positions /\ curr \in Positions
    /\ gpio = [i \in 1..4 |-> 1] => Position = 0
    /\ io.args # <<>> => curr = io.args[2] /\ RawCodesOf(curr) # {}

\* hid_task sampled the rest code after a move from position 1
C16_Witness ==
    /\ io.args = <<1, 0>>
    /\ gpio = [i \in 1..4 |-> 1]
    /\ curr = 0

(* ---------------------------------------------------------------------- *)
(* C17                                                                     *)
(* ---------------------------------------------------------------------- *)

\* C17: when the position sampled on an IDLE ready tick is k positions from
\* prev with 2 <= |k| <= 7, that tick sends exactly one press report, its key
\* chosen by the sign of k, and prev becomes the sampled position at once;
\* the release that follows leaves prev there, so the other |k| - 1 positions
\* are never reported.
C17_MagnitudeIgnored ==
    /\ [][(ReadyTick /\ ~clear_flag /\ Abs(gray_diff(prev, Position)) \in 2..7) =>
            /\ presses' = presses + 1
            /\ releases' = releases
            /\ io'.report = << <<IF gray_diff(prev, Position) > 0
                                 THEN HID_KEY_BACKSLASH
                                 ELSE HID_KEY_BRACKET_RIGHT, 0, 0, 0, 0, 0>> >>
            /\ clear_flag'
            /\ prev' = Position]_vars
    /\ [][(ReadyTick /\ clear_flag) =>
            /\ releases' = releases + 1
            /\ presses' = presses
            /\ prev' = prev]_vars

\* a jump of five positions was reported by one press and one release, and
\* prev is the position that was sampled
C17_Witness ==
    /\ presses = 1 /\ releases = 1
    /\ diff = 5
    /\ prev = curr
    /\ io.report = <<NoKeys>>

(* ---------------------------------------------------------------------- *)
(* C18                                                                     *)
(* ---------------------------------------------------------------------- *)

\* C18: prev changes only in a ready tick in IDLE, which sets it to the
\* position it samples; until the first such tick prev is the startup sample
\* and afterwards it is curr, the last position sampled; a ready tick that
\* sends the release report leaves prev, curr and diff unchanged and
\* classifies nothing, so the next IDLE ready tick classifies against the
\* baseline of before the release.
C18_PrevWriters ==
    /\ [](IF NeverReady THEN prev = boot ELSE prev = curr)
    /\ [][prev' # prev => ReadyTick /\ ~clear_flag /\ prev' = Position]_vars
    /\ [][curr' # curr => ReadyTick /\ ~clear_flag /\ curr' = Position]_vars
    /\ [][(ReadyTick /\ clear_flag) =>
            UNCHANGED <<prev, curr, diff>> /\ io'.args = <<>>]_vars
    /\ [][(ReadyTick /\ ~clear_flag) => io'.args = <<prev, Position>>]_vars

\* three consecutive executed ticks: press, release, and a second press
\* classified against the position of the first
C18_Witness ==
    /\ start_ms = 30
    /\ presses = 2 /\ releases = 1
    /\ io.args # <<>>
    /\ io.args[1] # io.args[2]
    /\ clear_flag

(* ---------------------------------------------------------------------- *)
(* C14                                                                     *)
(* ---------------------------------------------------------------------- *)

\* clock time not yet consumed by executed ticks
Backlog == millis - start_ms

\* C14 as stated: two executions of the tick logic are never less than
\* 10 ms apart on the millisecond clock.
C14_Original == [][(ticks' # ticks /\ ticks > 0) => elapsed >= interval_ms]_vars

\* C14 amended: the tick logic executes only when at least 10 ms of clock
\* time are not yet consumed, and each execution consumes exactly 10 ms of
\* it; so the tick logic has executed at most floor(t / 10) times by clock
\* time t. An execution that happens exactly when it is due is not followed
\* by another before the clock has advanced; an execution that happens 10 ms
\* or more after it was due leaves the next one due at once, less than 10 ms
\* later.
C14_RateLimit ==
    /\ [](ticks * interval_ms <= millis)
    /\ [][ticks' # ticks =>
            /\ Backlog >= interval_ms
            /\ ticks' = ticks + 1
            /\ Backlog' = Backlog - interval_ms]_vars
    /\ [][(ticks' # ticks /\ Backlog < 2 * interval_ms) => NotDue']_vars
    /\ [][(ticks' # ticks /\ Backlog >= 2 * interval_ms) =>
            ~NotDue' /\ elapsed' = 0]_vars

\* a tick has just executed and the next one is already due
C14_Witness ==
    /\ io.ran
    /\ elapsed = 0
    /\ ticks >= 1
    /\ ~NotDue

(* ---------------------------------------------------------------------- *)
(* C19                                                                     *)
(* ---------------------------------------------------------------------- *)

\* a step of hid_task: the only steps that leave the pins, the clock and the
\* blink interval as they are
HidTaskStep == UNCHANGED <<gpio, millis, blink_interval_ms>>

\* C19: start_ms is 0 at startup and 10 times the number of executed ticks
\* ever after, it never exceeds the clock, so at most floor(t / 10) ticks
\* have executed by clock time t; start_ms changes only by an executed tick,
\* by +10; and while start_ms is 10 ms or more behind the clock every call
\* of hid_task executes the tick logic, so missed ticks run on consecutive
\* loop iterations until start_ms has caught up.
C19_Schedule ==
    /\ start_ms = 0 /\ ticks = 0
    /\ [](/\ start_ms = interval_ms * ticks
          /\ start_ms <= millis
          /\ ticks <= millis \div interval_ms)
    /\ [][start_ms' # start_ms =>
            /\ start_ms' = start_ms + interval_ms
            /\ ticks' = ticks + 1
            /\ start_ms' <= millis']_vars
    /\ [][ticks' # ticks => start_ms' # start_ms]_vars
    /\ [][(HidTaskStep /\ ~NotDue) => ticks' = ticks + 1]_vars
    /\ [][(HidTaskStep /\ NotDue) => ticks' = ticks]_vars

\* in the middle of catching up: a tick has just executed at clock time 40
\* and start_ms is still two intervals behind
C19_Witness ==
    /\ millis = 40
    /\ start_ms = 20
    /\ ticks = 2
    /\ elapsed = 0
    /\ io.ran

(* ---------------------------------------------------------------------- *)
(* C15                                                                     *)
(* ---------------------------------------------------------------------- *)

\* an executed tick that finds the transport ready while a release is owed
ReadyRelease == HidRelease(TRUE, FALSE)

\* the encoder at rest at startup: all four pins pulled up
InitLive == Init /\ gpio = [i \in 1..4 |-> 1]

\* the knob is turned so that one pin changes its level
EncoderBit ==
    /\ \E i \in 1..4 : gpio' = [gpio EXCEPT ![i] = 1 - gpio[i]]
    /\ UNCHANGED <<prev, curr, diff, clear_flag, blink_interval_ms, start_ms,
                   millis, presses, releases, boot, ticks, elapsed, io>>

\* hid_task while the bus is not suspended
HidTaskAwake ==
    \/ HidTooEarly
    \/ \E ready \in BOOLEAN :
          \/ HidNotReady(ready, FALSE)
          \/ HidRelease(ready, FALSE)
          \/ HidSample(ready, FALSE)

\* the device stays mounted: no lifecycle callback, the bus never suspended
NextLive ==
    \/ EncoderBit
    \/ ClockAdvance
    \/ HidTaskAwake

\* main() calls hid_task in a loop that never ends; the clock keeps advancing
\* (up to the bound of the model); the transport is ready again and again
Fairness ==
    /\ WF_vars(ClockAdvance)
    /\ WF_vars(HidTaskAwake)
    /\ SF_vars(ReadyRelease)

SpecLive == InitLive /\ [][NextLive]_vars /\ Fairness

\* no tick can execute any more within the clock range of the model
Horizon == start_ms + interval_ms > MaxMs

====
